---- MODULE Spec2Model ----
(***************************************************************************)
(* Model of src/modules/notion_client.py (class Notion): the record        *)
(* fetcher, the monthly aggregator and the summary store reconciler, with  *)
(* the remote record store they talk to.                                   *)
(*                                                                         *)
(* One client runs single-threaded; pc is its position.  The remote store  *)
(* (source pages, the parent page's children, the summary collection's     *)
(* schema and records) is part of the state.  A remote call is one step.   *)
(***************************************************************************)
EXTENDS Integers, Sequences, FiniteSets, TLC

VARIABLES
    pc,             \* position of the client
    source_pages,   \* remote: the source collection, as the pages a query returns
    results,        \* fetch_all_records: results
    response,       \* fetch_all_records / upsert_monthly_summary: last response
    queries,        \* history: start_cursor of each query issued, in order
    responses,      \* history: has_more and next_cursor of each response, in order
    aggregation_attribute,  \* self.aggregation_attribute ("" when not designated)
    df,             \* aggregate_monthly_performance: the daily rows
    monthly_df,     \* the aggregate rows (output of the aggregator, input of the upsert)
    error,          \* the exception that ended the call, "none" otherwise
    parent_page_id, \* self.parent_page_id ("" when not set)
    children,       \* remote: the blocks of the parent page, in page order
    schema,         \* remote: collection id -> (property name -> type)
    found_id,       \* get_or_create_monthly_summary_db: block["id"] of the match
    desired_updates,\* _ensure_summary_db_properties: desired_updates
    calls,          \* history: the remote calls of the current run, in order
    summary_db_id,  \* the id the last get_or_create_monthly_summary_db returned
    create_count,   \* history: databases.create calls over all runs
    returned,       \* history: the ids returned over all runs
    target,         \* remote: the records of the summary collection, in query order
    existing_pages, \* upsert_monthly_summary: existing_pages
    existing_map,   \* upsert_monthly_summary: existing_map
    row_i,          \* upsert_monthly_summary: the row the loop of line 301 is at
    initial_target, \* history: the summary collection before the first run
    start_target,   \* history: the summary collection when the current run began
    repeat,         \* history: the run before this one completed, with the same rows
    aborted,        \* history: some run so far ended in an exception
    runs,           \* history: the number of runs started
    source_db_id,   \* self.source_db_id
    database_id,    \* fetch_all_records / results_to_dataframe: database_id
    passed_id,      \* history: the database_id the call was given
    prop_schema,    \* remote: the source collection's properties, in schema order
    proc            \* concurrent reconcilers: run -> its local variables

fetchVars == <<source_pages, results, response, queries, responses>>
aggVars == <<aggregation_attribute, df, monthly_df>>
dbVars == <<parent_page_id, children, schema, found_id, desired_updates,
            summary_db_id, create_count, returned>>
upsertVars == <<target, existing_pages, existing_map, row_i, initial_target,
                start_target, repeat, aborted, runs>>
callVars == <<source_db_id, database_id, passed_id, prop_schema>>
vars == <<pc, error, calls, fetchVars, aggVars, dbVars, upsertVars, callVars, proc>>
nonFetchVars == <<error, calls, aggVars, dbVars, upsertVars, callVars, proc>>
nonAggVars == <<calls, fetchVars, dbVars, upsertVars, callVars, proc>>
nonUpsertVars == <<source_pages, results, queries, responses, aggregation_attribute, df, dbVars,
                   callVars, proc>>

(***************************************************************************)
(* Bounds                                                                  *)
(***************************************************************************)
MaxPages == 3
MaxPageSize == 2
MaxDailyRows == 3
NumYears == 2
MaxChildren == 2
MaxInitRecords == 2
MaxAggRows == 2
TargetPageSize == 2
MaxRuns == 2
MaxRawRecords == 2

(***************************************************************************)
(* Generic helpers                                                         *)
(***************************************************************************)
RECURSIVE Flatten(_)
Flatten(ss) ==
    IF ss = <<>> THEN <<>> ELSE Head(ss) \o Flatten(Tail(ss))

RECURSIVE SumSeq(_)
SumSeq(s) ==
    IF s = <<>> THEN 0 ELSE Head(s) + SumSeq(Tail(s))

SeqsUpTo(S, n) ==
    UNION {[1..k -> S] : k \in 0..n}

(***************************************************************************)
(* The remote store: databases.query                                       *)
(***************************************************************************)
NoCursor == "none"

CursorOf(i) ==
    "cursor" \o ToString(i)

PageOfCursor(pages, start_cursor) ==
    IF start_cursor = NoCursor THEN 1
    ELSE CHOOSE i \in 1..Len(pages) : CursorOf(i) = start_cursor

\* One page of a collection: its records, whether more remain, and the token
\* that continues after it.
databases_query(pages, start_cursor) ==
    LET i == PageOfCursor(pages, start_cursor)
    IN  [results     |-> pages[i],
         has_more    |-> i < Len(pages),
         next_cursor |-> IF i < Len(pages) THEN CursorOf(i + 1) ELSE NoCursor]

NoResponse ==
    [results |-> <<>>, has_more |-> FALSE, next_cursor |-> NoCursor]

\* Sources of 1..MaxPages pages of 0..MaxPageSize records; the records are
\* numbered in store order, so every record is distinct.
PageSizes ==
    UNION {[1..n -> 0..MaxPageSize] : n \in 1..MaxPages}

PagesOfSizes(sz) ==
    [i \in 1..Len(sz) |->
        [j \in 1..sz[i] |-> SumSeq(SubSeq(sz, 1, i - 1)) + j]]

SourcePageLists ==
    {PagesOfSizes(sz) : sz \in PageSizes}

(***************************************************************************)
(* fetch_all_records                                                       *)
(***************************************************************************)
FetchIdle ==
    /\ results = <<>>
    /\ response = NoResponse
    /\ queries = <<>>
    /\ responses = <<>>

Logged(r) ==
    [has_more |-> r.has_more, next_cursor |-> r.next_cursor]

\* a loop that keeps the cursor of the first response
StaleCursor(resp) ==
    IF responses = <<>> THEN resp.next_cursor ELSE responses[1].next_cursor

\* line 99: start_cursor=response["next_cursor"]
NextCursor(resp) ==
    resp.next_cursor

FetchFirst ==
    /\ pc = "fetch"
    /\ LET r == databases_query(source_pages, NoCursor)
       IN  /\ response' = r
           /\ results' = results \o r.results
           /\ queries' = Append(queries, NoCursor)
           /\ responses' = Append(responses, Logged(r))
    /\ pc' = "fetch_loop"
    /\ UNCHANGED <<source_pages, nonFetchVars>>

\* lines 96-101: while response.get("has_more")
FetchNext ==
    /\ pc = "fetch_loop"
    /\ response.has_more
    /\ LET r == databases_query(source_pages, NextCursor(response))
       IN  /\ response' = r
           /\ results' = results \o r.results
           /\ queries' = Append(queries, NextCursor(response))
           /\ responses' = Append(responses, Logged(r))
    /\ pc' = "fetch_loop"
    /\ UNCHANGED <<source_pages, nonFetchVars>>

\* line 103: return results
FetchReturn ==
    /\ pc = "fetch_loop"
    /\ ~response.has_more
    /\ pc' = "fetched"
    /\ UNCHANGED <<fetchVars, nonFetchVars>>

(***************************************************************************)
(* Numbers.  A float is kept exactly, as num/den, or is NaN; after         *)
(* round(2) it is a number of hundredths (den = 100).                      *)
(***************************************************************************)
NaN ==
    [nan |-> TRUE, num |-> 0, den |-> 1]

Float(n, d) ==
    [nan |-> FALSE, num |-> n, den |-> d]

Hundredths(h) ==
    Float(h, 100)

\* n/d to the nearest integer, ties to the even one (n >= 0, d > 0)
RoundHalfEven(n, d) ==
    LET q == n \div d
        r == n % d
    IN  IF 2 * r < d THEN q
        ELSE IF 2 * r > d THEN q + 1
        ELSE IF q % 2 = 0 THEN q ELSE q + 1

\* line 188: .round(2)
Round2(x) ==
    IF x.nan THEN NaN ELSE Hundredths(RoundHalfEven(100 * x.num, x.den))

\* .mean() of a column's non-missing values
Mean(vals) ==
    IF vals = <<>> THEN NaN ELSE Float(SumSeq(vals), Len(vals))

(***************************************************************************)
(* Calendar                                                                *)
(***************************************************************************)
\* calendar.month_name[1..12]
month_name ==
    <<"January", "February", "March", "April", "May", "June", "July",
      "August", "September", "October", "November", "December">>

\* the month names in string order, the order groupby sorts its keys in
MonthsSorted ==
    <<"April", "August", "December", "February", "January", "July", "June",
      "March", "May", "November", "October", "September">>

IndexOf(s, x) ==
    CHOOSE i \in 1..Len(s) : s[i] = x

\* line 178: list(calendar.month_name).index(m); line 308: strptime(m, "%B").month
Month_Num(m) ==
    IndexOf(month_name, m)

Years ==
    {2025 - k : k \in 0..(NumYears - 1)}

UsedMonths ==
    {"June", "December"}

(***************************************************************************)
(* Data frames: a sequence of rows, a row a mapping column -> value; a     *)
(* column a row lacks is missing (NaN) in that row.                        *)
(***************************************************************************)
Columns(frame) ==
    UNION {DOMAIN frame[i] : i \in 1..Len(frame)}

\* A Year cell as iterrows hands it over: the number, and whether the
\* column's dtype made it a float (a column with a missing value is float64).
YearCell(y, is_float) ==
    [v |-> y, is_float |-> is_float]

HasKey(row) ==
    "Year" \in DOMAIN row /\ "Month" \in DOMAIN row

avg_col(attr) ==
    "avg_" \o attr

(***************************************************************************)
(* aggregate_monthly_performance                                           *)
(***************************************************************************)
\* groupby(["Year", "Month"]): the distinct keys among the rows that have both
GroupKeys(frame) ==
    {<<frame[i].Year, frame[i].Month>> : i \in {j \in 1..Len(frame) : HasKey(frame[j])}}

\* groupby sorts its keys ascending: Year, then Month as a string
GroupKeyBefore(a, b) ==
    \/ a[1] < b[1]
    \/ a[1] = b[1] /\ IndexOf(MonthsSorted, a[2]) < IndexOf(MonthsSorted, b[2])

GroupKeysSorted(frame) ==
    LET S == GroupKeys(frame)
    IN  [i \in 1..Cardinality(S) |->
            CHOOSE x \in S : Cardinality({y \in S : GroupKeyBefore(y, x)}) = i - 1]

\* the attribute's values in one group, rows lacking it skipped
GroupValues(frame, key, attr) ==
    LET InGroup(row) == HasKey(row) /\ <<row.Year, row.Month>> = key /\ attr \in DOMAIN row
        sel == SelectSeq(frame, InGroup)
    IN  [i \in 1..Len(sel) |-> sel[i][attr]]

\* a mean that counts every row of the group
GroupMeanAllRows(frame, key, attr) ==
    LET InGroup(row) == HasKey(row) /\ <<row.Year, row.Month>> = key
    IN  Float(SumSeq(GroupValues(frame, key, attr)), Len(SelectSeq(frame, InGroup)))

GroupMean(frame, key, attr) ==
    Mean(GroupValues(frame, key, attr))

\* lines 171-175: one row per group, the mean renamed to avg_<attribute>
GroupByMean(frame, attr) ==
    LET keys == GroupKeysSorted(frame)
        is_float == \E i \in 1..Len(frame) : "Year" \notin DOMAIN frame[i]
    IN  [i \in 1..Len(keys) |->
            ("Year" :> YearCell(keys[i][1], is_float))
            @@ ("Month" :> keys[i][2])
            @@ (avg_col(attr) :> GroupMean(frame, keys[i], attr))]

\* lines 177-179
AddMonthNum(frame) ==
    [i \in 1..Len(frame) |-> frame[i] @@ ("Month_Num" :> Month_Num(frame[i].Month))]

SortedBefore(a, b) ==
    \/ a.Year.v > b.Year.v
    \/ a.Year.v = b.Year.v /\ a.Month_Num > b.Month_Num

\* a frame left in the order groupby produced
KeepOrder(frame) ==
    frame

\* line 183: sort_values(["Year", "Month_Num"], ascending=[False, False])
SortValues(frame) ==
    [i \in 1..Len(frame) |->
        frame[CHOOSE j \in 1..Len(frame) :
            Cardinality({k \in 1..Len(frame) :
                \/ SortedBefore(frame[k], frame[j])
                \/ (~SortedBefore(frame[j], frame[k]) /\ k < j)}) = i - 1]]

\* line 184: drop(columns="Month_Num")
DropMonthNum(frame) ==
    [i \in 1..Len(frame) |->
        [c \in DOMAIN frame[i] \ {"Month_Num"} |-> frame[i][c]]]

\* line 188
RoundColumn(frame, col) ==
    [i \in 1..Len(frame) |-> [frame[i] EXCEPT ![col] = Round2(@)]]

\* an aggregator that does not look whether an attribute is designated
AggregateOutcomeUnchecked(frame, attr) ==
    IF ~({"Year", "Month", attr} \subseteq Columns(frame)) THEN "KeyError" ELSE "none"

\* What the call does: "ValueError" without an attribute (line 169),
\* "KeyError" when the frame has no Year, Month or attribute column
\* (groupby / column selection, line 172), the aggregate otherwise.
AggregateOutcome(frame, attr) ==
    IF attr = "" THEN "ValueError"
    ELSE IF ~({"Year", "Month", attr} \subseteq Columns(frame)) THEN "KeyError"
    ELSE "none"

aggregate_monthly_performance(frame, attr) ==
    RoundColumn(DropMonthNum(SortValues(AddMonthNum(GroupByMean(frame, attr)))),
                avg_col(attr))

Aggregate ==
    /\ pc = "aggregate"
    /\ LET out == AggregateOutcome(df, aggregation_attribute)
       IN  /\ error' = out
           /\ pc' = IF out = "none" THEN "aggregated" ELSE "raised"
           /\ monthly_df' = IF out = "none"
                            THEN aggregate_monthly_performance(df, aggregation_attribute)
                            ELSE monthly_df
    /\ UNCHANGED <<aggregation_attribute, df, nonAggVars>>

AggIdle ==
    /\ aggregation_attribute = "rnd"
    /\ df = <<>>
    /\ monthly_df = <<>>

\* The daily rows a source can yield: a row has the calendar fields or not,
\* and the attribute or not, but is never empty (line 141).
AttrValues ==
    {10, 20}

DailyRows ==
    {[Year |-> y, Month |-> m, rnd |-> v] : y \in Years, m \in UsedMonths, v \in AttrValues}
    \cup {[Year |-> y, Month |-> m] : y \in Years, m \in UsedMonths}
    \cup {[rnd |-> v] : v \in AttrValues}

DailyFrames ==
    SeqsUpTo(DailyRows, MaxDailyRows)

(***************************************************************************)
(* Text.  A title is a sequence of characters, so that strip() and lower() *)
(* are computed, not assumed.                                              *)
(***************************************************************************)
LowerOf ==
    [A |-> "a", B |-> "b", C |-> "c", D |-> "d", E |-> "e", F |-> "f", G |-> "g",
     H |-> "h", I |-> "i", J |-> "j", K |-> "k", L |-> "l", M |-> "m", N |-> "n",
     O |-> "o", P |-> "p", Q |-> "q", R |-> "r", S |-> "s", T |-> "t", U |-> "u",
     V |-> "v", W |-> "w", X |-> "x", Y |-> "y", Z |-> "z"]

\* str.lower()
Lower(t) ==
    [i \in 1..Len(t) |-> IF t[i] \in DOMAIN LowerOf THEN LowerOf[t[i]] ELSE t[i]]

Whitespace ==
    {" ", "\t", "\n"}

\* str.strip()
Strip(t) ==
    LET keep == {i \in 1..Len(t) : t[i] \notin Whitespace}
    IN  IF keep = {} THEN <<>>
        ELSE LET lo == CHOOSE i \in keep : \A j \in keep : i <= j
                 hi == CHOOSE i \in keep : \A j \in keep : i >= j
             IN  SubSeq(t, lo, hi)

\* "Monthly Aggregate Summary" (lines 250 and 260)
SummaryTitle ==
    <<"M", "o", "n", "t", "h", "l", "y", " ",
      "A", "g", "g", "r", "e", "g", "a", "t", "e", " ",
      "S", "u", "m", "m", "a", "r", "y">>

\* a comparison that forgets lower()
StripOnly(t) ==
    Strip(t)

\* line 249: block["child_database"]["title"].strip().lower()
db_title(t) ==
    Lower(Strip(t))

(***************************************************************************)
(* _get_summary_property_names, _ensure_summary_db_properties              *)
(***************************************************************************)
\* line 199
summary_prop(attr) ==
    "Average " \o attr

Entry(cond, name, value) ==
    IF cond THEN (name :> value) ELSE <<>>

\* an ensure step that looks after the numeric property only
DesiredUpdatesNumberOnly(props, attr) ==
    Entry(summary_prop(attr) \notin DOMAIN props \/ props[summary_prop(attr)] # "number",
          summary_prop(attr), "number")

\* lines 212-221
DesiredUpdates(props, attr) ==
    Entry("Name" \notin DOMAIN props \/ props["Name"] # "title", "Name", "title")
    @@ Entry("Date" \notin DOMAIN props \/ props["Date"] # "date", "Date", "date")
    @@ Entry(summary_prop(attr) \notin DOMAIN props \/ props[summary_prop(attr)] # "number",
             summary_prop(attr), "number")

\* lines 262-266: the properties a new summary collection is created with
NewSchema(attr) ==
    ("Name" :> "title") @@ (summary_prop(attr) :> "number") @@ ("Date" :> "date")

\* remote: databases.update adds the given properties or sets their type
ApplySchemaUpdate(old, upd) ==
    upd @@ old

(***************************************************************************)
(* get_or_create_monthly_summary_db                                        *)
(***************************************************************************)
\* lines 247-250: the blocks that are a child database with the summary title
Matching(blocks) ==
    {i \in 1..Len(blocks) :
        /\ blocks[i].type = "child_database"
        /\ db_title(blocks[i].title) = Lower(SummaryTitle)}

\* the loop of line 247 returns at the first match
FirstMatch(blocks) ==
    CHOOSE i \in Matching(blocks) : \A j \in Matching(blocks) : i <= j

NewDbId(n) ==
    "db" \o ToString(n)

\* lines 237-241
StartLocate ==
    /\ pc \in {"idle", "located", "raised"}
    /\ calls' = <<>>
    /\ found_id' = ""
    /\ desired_updates' = <<>>
    /\ IF parent_page_id = ""
       THEN pc' = "raised" /\ error' = "ValueError"
       ELSE pc' = "list" /\ error' = "none"
    /\ UNCHANGED <<parent_page_id, children, schema, summary_db_id, create_count,
                   returned, fetchVars, aggVars, upsertVars,
                   callVars, proc>>

\* lines 244-250: list the children, take the first match
ListChildren ==
    /\ pc = "list"
    /\ calls' = Append(calls, [op |-> "list_children", id |-> parent_page_id,
                               props |-> <<>>])
    /\ LET m == Matching(children)
       IN  IF m # {}
           THEN /\ found_id' = children[FirstMatch(children)].id
                /\ pc' = "ensure"
           ELSE /\ found_id' = ""
                /\ pc' = "create"
    /\ UNCHANGED <<error, parent_page_id, children, schema, desired_updates,
                   summary_db_id, create_count, returned, fetchVars, aggVars, upsertVars,
                   callVars, proc>>

\* lines 208-221: the schema is read again and compared
EnsureRetrieve ==
    /\ pc = "ensure"
    /\ IF aggregation_attribute = ""
       THEN /\ pc' = "raised" /\ error' = "ValueError"
            /\ UNCHANGED <<calls, desired_updates>>
       ELSE /\ calls' = Append(calls, [op |-> "get_schema", id |-> found_id,
                                       props |-> schema[found_id]])
            /\ desired_updates' = DesiredUpdates(schema[found_id], aggregation_attribute)
            /\ pc' = "ensure_update"
            /\ UNCHANGED error
    /\ UNCHANGED <<parent_page_id, children, schema, found_id, summary_db_id,
                   create_count, returned, fetchVars, aggVars, upsertVars,
                   callVars, proc>>

\* lines 223-224 and 254: update if anything is to be fixed, return the id
EnsureUpdate ==
    /\ pc = "ensure_update"
    /\ IF DOMAIN desired_updates # {}
       THEN /\ calls' = Append(calls, [op |-> "update_schema", id |-> found_id,
                                       props |-> desired_updates])
            /\ schema' = [schema EXCEPT ![found_id] = ApplySchemaUpdate(@, desired_updates)]
       ELSE UNCHANGED <<calls, schema>>
    /\ summary_db_id' = found_id
    /\ returned' = returned \cup {found_id}
    /\ pc' = "located"
    /\ UNCHANGED <<error, parent_page_id, children, found_id, desired_updates,
                   create_count, fetchVars, aggVars, upsertVars,
                   callVars, proc>>

\* lines 257-270: no match, a new collection is created under the parent
CreateDb ==
    /\ pc = "create"
    /\ IF aggregation_attribute = ""
       THEN /\ pc' = "raised" /\ error' = "ValueError"
            /\ UNCHANGED <<calls, children, schema, summary_db_id, create_count, returned>>
       ELSE LET id == NewDbId(create_count + 1)
            IN  /\ calls' = Append(calls, [op |-> "create_collection", id |-> id,
                                           props |-> NewSchema(aggregation_attribute)])
                /\ children' = Append(children, [id |-> id, type |-> "child_database",
                                                 title |-> SummaryTitle])
                /\ schema' = (id :> NewSchema(aggregation_attribute)) @@ schema
                /\ create_count' = create_count + 1
                /\ summary_db_id' = id
                /\ returned' = returned \cup {id}
                /\ pc' = "located"
                /\ UNCHANGED error
    /\ UNCHANGED <<parent_page_id, found_id, desired_updates, fetchVars, aggVars, upsertVars,
                   callVars, proc>>

\* remote, between runs: someone edits the schema of a summary collection by
\* hand (removes a property or changes its type)
HandEditSchema ==
    /\ pc \in {"idle", "located"}
    /\ aggregation_attribute # ""
    /\ \E id \in DOMAIN schema :
       \E p \in {"Name", "Date", summary_prop(aggregation_attribute)} :
          \/ /\ p \in DOMAIN schema[id]
             /\ schema' = [schema EXCEPT ![id] = [q \in DOMAIN @ \ {p} |-> @[q]]]
          \/ \E t \in {NewSchema(aggregation_attribute)[p], "rich_text"} :
                /\ (IF p \in DOMAIN schema[id] THEN schema[id][p] # t ELSE TRUE)
                /\ schema' = [schema EXCEPT ![id] = (p :> t) @@ @]
    /\ pc' = "idle"
    /\ UNCHANGED <<error, calls, parent_page_id, children, found_id, desired_updates,
                   summary_db_id, create_count, returned, fetchVars, aggVars, upsertVars,
                   callVars, proc>>

DbIdle ==
    /\ parent_page_id = "page"
    /\ children = <<>>
    /\ schema = <<>>
    /\ found_id = ""
    /\ desired_updates = <<>>
    /\ summary_db_id = ""
    /\ create_count = 0
    /\ returned = {}

\* The parent pages a run can meet: up to MaxChildren blocks, each a paragraph
\* or a child database titled as the summary (exactly, or in lower case with
\* blanks around it) or otherwise.
PaddedLowerTitle ==
    <<" ">> \o Lower(SummaryTitle) \o <<" ">>

OtherTitle ==
    <<"T", "a", "s", "k", "s">>

BlockKinds ==
    {[type |-> "paragraph", title |-> <<>>]}
    \cup {[type |-> "child_database", title |-> t] :
            t \in {SummaryTitle, PaddedLowerTitle, OtherTitle}}

BlockId(i) ==
    "block" \o ToString(i)

ChildrenLists ==
    {[i \in 1..Len(ks) |-> [id |-> BlockId(i), type |-> ks[i].type, title |-> ks[i].title]] :
        ks \in SeqsUpTo(BlockKinds, MaxChildren)}

\* a property is absent, of the required type, or of another type
SchemasOf(attr) ==
    LET req == NewSchema(attr)
    IN  {[p \in present |-> IF p \in right THEN req[p] ELSE "rich_text"] :
            present \in SUBSET DOMAIN req, right \in SUBSET DOMAIN req}

(***************************************************************************)
(* The summary collection.  A record has an id and properties; its Name is *)
(* the title, a list of rich-text segments (page["properties"]["Name"]     *)
(* ["title"]), each with its plain_text.                                   *)
(***************************************************************************)
PageId(n) ==
    "page" \o ToString(n)

\* remote: query pages of TargetPageSize records, at least one page
Paginate(records) ==
    LET n == IF Len(records) = 0 THEN 1
             ELSE (Len(records) + TargetPageSize - 1) \div TargetPageSize
    IN  [i \in 1..n |->
            SubSeq(records, (i - 1) * TargetPageSize + 1,
                   IF i * TargetPageSize < Len(records)
                   THEN i * TargetPageSize ELSE Len(records))]

\* remote: pages.update sets the given properties of the record, no other
ApplyUpdate(records, id, props) ==
    [i \in 1..Len(records) |->
        IF records[i].id = id
        THEN [records[i] EXCEPT !.properties = props @@ @]
        ELSE records[i]]

\* remote: pages.create adds a record with the given properties
ApplyCreate(records, props) ==
    Append(records, [id |-> PageId(Len(records) + 1), properties |-> props])

(***************************************************************************)
(* upsert_monthly_summary                                                  *)
(***************************************************************************)
\* a lookup that keeps the whole page list but reads the first page only
FirstPageOnly(resp) ==
    FALSE

\* lines 285: while response.get("has_more")
MorePages(resp) ==
    resp.has_more

\* lines 292-297: title -> id, a later page replacing an earlier one with the
\* same key; the key is the plain_text of the FIRST title segment, and a
\* record with an empty title list is skipped
BuildMap(pages) ==
    LET titled == {i \in 1..Len(pages) : pages[i].properties["Name"] # <<>>}
        Key(i) == pages[i].properties["Name"][1]
        last(l) == CHOOSE i \in titled :
                      /\ Key(i) = l
                      /\ \A j \in titled : Key(j) = l => j <= i
    IN  [l \in {Key(i) : i \in titled} |-> pages[last(l)].id]

\* f"{...}" of a Year cell: an int prints as 2025, a float as 2025.0
FormatYear(cell) ==
    IF cell.is_float THEN ToString(cell.v) \o ".0" ELSE ToString(cell.v)

\* f"{month_number:02d}"
Pad2(n) ==
    IF n < 10 THEN "0" \o ToString(n) ELSE ToString(n)

\* line 302: f"{row['Month']} {int(row['Year'])}"
month_label(row) ==
    row.Month \o " " \o ToString(row.Year.v)

\* lines 308-309: f"{row['Year']}-{month_number:02d}-01"
date_value(row) ==
    FormatYear(row.Year) \o "-" \o Pad2(Month_Num(row.Month)) \o "-01"

\* an update that writes the title as well
UpdatePropertiesWithName(row, attr) ==
    ("Name" :> <<month_label(row)>>)
    @@ (summary_prop(attr) :> row[avg_col(attr)])
    @@ ("Date" :> date_value(row))

\* lines 315-318
UpdateProperties(row, attr) ==
    (summary_prop(attr) :> row[avg_col(attr)])
    @@ ("Date" :> date_value(row))

\* lines 325-329
CreateProperties(row, attr) ==
    ("Name" :> <<month_label(row)>>)
    @@ (summary_prop(attr) :> row[avg_col(attr)])
    @@ ("Date" :> date_value(row))

\* a lookup that also learns the record the loop has just written
LookupExtended(map, label, id) ==
    (label :> id) @@ map

\* lines 301-331: the loop reads existing_map and never assigns to it
LookupAfterWrite(map, label, id) ==
    map

\* a failed call undone by restoring the collection
RolledBack(records) ==
    start_target

\* no handler around the calls: what was written stays written
AfterFailure(records) ==
    records

\* the aggregate rows a run is given: distinct (Year, Month), most recent
\* first, the Year column int64 or float64, the averages in hundredths
AvgValues ==
    {Hundredths(4200), Hundredths(1500)}

AggKeys ==
    {<<2025, m>> : m \in UsedMonths}

AggKeyBefore(a, b) ==
    \/ a[1] > b[1]
    \/ a[1] = b[1] /\ Month_Num(a[2]) > Month_Num(b[2])

FrameOf(keys, avg, is_float) ==
    LET ks == [i \in 1..Cardinality(keys) |->
                 CHOOSE x \in keys :
                    Cardinality({y \in keys : AggKeyBefore(y, x)}) = i - 1]
    IN  [i \in 1..Len(ks) |->
            [Year |-> YearCell(ks[i][1], is_float), Month |-> ks[i][2],
             avg_rnd |-> avg[ks[i]]]]

UpsertFrames ==
    {FrameOf(keys, avg, is_float) :
        keys \in {k \in SUBSET AggKeys : Cardinality(k) <= MaxAggRows},
        avg \in [AggKeys -> AvgValues],
        is_float \in BOOLEAN}

StartUpsert ==
    /\ pc \in {"idle", "done", "raised"}
    /\ runs < MaxRuns
    /\ runs' = runs + 1
    /\ \E f \in UpsertFrames :
          /\ monthly_df' = f
          /\ repeat' = (pc = "done" /\ monthly_df = f)
    /\ aborted' = (aborted \/ pc = "raised")
    /\ start_target' = target
    /\ calls' = <<>>
    /\ existing_pages' = <<>>
    /\ existing_map' = <<>>
    /\ row_i' = 1
    /\ response' = NoResponse
    /\ error' = "none"
    /\ pc' = "query"
    /\ UNCHANGED <<target, initial_target, nonUpsertVars>>

\* lines 282-283
UpsertQueryFirst ==
    /\ pc = "query"
    /\ LET r == databases_query(Paginate(target), NoCursor)
       IN  /\ response' = r
           /\ existing_pages' = existing_pages \o r.results
           /\ calls' = Append(calls, [op |-> "query", id |-> NoCursor,
                                      props |-> <<>>, ok |-> TRUE])
    /\ pc' = "query_loop"
    /\ UNCHANGED <<error, monthly_df, target, existing_map, row_i, initial_target,
                   start_target, repeat, aborted, runs, nonUpsertVars>>

\* lines 285-289
UpsertQueryNext ==
    /\ pc = "query_loop"
    /\ MorePages(response)
    /\ LET r == databases_query(Paginate(target), response.next_cursor)
       IN  /\ response' = r
           /\ existing_pages' = existing_pages \o r.results
           /\ calls' = Append(calls, [op |-> "query", id |-> response.next_cursor,
                                      props |-> <<>>, ok |-> TRUE])
    /\ pc' = "query_loop"
    /\ UNCHANGED <<error, monthly_df, target, existing_map, row_i, initial_target,
                   start_target, repeat, aborted, runs, nonUpsertVars>>

\* lines 292-300: the lookup, then the property names
BuildLookup ==
    /\ pc = "query_loop"
    /\ ~MorePages(response)
    /\ existing_map' = BuildMap(existing_pages)
    /\ IF aggregation_attribute = ""
       THEN pc' = "raised" /\ error' = "ValueError"
       ELSE pc' = "rows" /\ error' = "none"
    /\ UNCHANGED <<calls, response, monthly_df, target, existing_pages, row_i,
                   initial_target, start_target, repeat, aborted, runs, nonUpsertVars>>

\* lines 301-331: one row, updated on a hit and created on a miss
UpsertRow ==
    /\ pc = "rows"
    /\ row_i <= Len(monthly_df)
    /\ LET row == monthly_df[row_i]
           col == avg_col(aggregation_attribute)
       IN  IF col \notin DOMAIN row
           THEN /\ pc' = "raised" /\ error' = "KeyError"
                /\ UNCHANGED <<calls, target, row_i, existing_map>>
           ELSE IF month_label(row) \in DOMAIN existing_map
           THEN LET id == existing_map[month_label(row)]
                    props == UpdateProperties(row, aggregation_attribute)
                IN  /\ calls' = Append(calls, [op |-> "update_record", id |-> id,
                                               props |-> props, ok |-> TRUE])
                    /\ target' = ApplyUpdate(target, id, props)
                    /\ existing_map' = LookupAfterWrite(existing_map, month_label(row), id)
                    /\ row_i' = row_i + 1
                    /\ UNCHANGED <<pc, error>>
           ELSE LET props == CreateProperties(row, aggregation_attribute)
                    id == PageId(Len(target) + 1)
                IN  /\ calls' = Append(calls, [op |-> "create_record", id |-> id,
                                               props |-> props, ok |-> TRUE])
                    /\ target' = ApplyCreate(target, props)
                    /\ existing_map' = LookupAfterWrite(existing_map, month_label(row), id)
                    /\ row_i' = row_i + 1
                    /\ UNCHANGED <<pc, error>>
    /\ UNCHANGED <<response, monthly_df, existing_pages, initial_target,
                   start_target, repeat, aborted, runs, nonUpsertVars>>

\* line 333: every row done
UpsertReturn ==
    /\ pc = "rows"
    /\ row_i > Len(monthly_df)
    /\ pc' = "done"
    /\ UNCHANGED <<error, calls, response, monthly_df, upsertVars, nonUpsertVars>>

\* remote: the call the run is about to make fails; the exception leaves
\* upsert_monthly_summary, which catches nothing
RemoteFailure ==
    /\ \/ pc = "query"
       \/ pc = "query_loop" /\ MorePages(response)
       \/ pc = "rows" /\ row_i <= Len(monthly_df)
    /\ calls' = Append(calls, [op |-> IF pc = "rows" THEN "write" ELSE "query",
                               id |-> "", props |-> <<>>, ok |-> FALSE])
    /\ target' = AfterFailure(target)
    /\ pc' = "raised"
    /\ error' = "RemoteError"
    /\ UNCHANGED <<response, monthly_df, existing_pages, existing_map, row_i,
                   initial_target, start_target, repeat, aborted, runs, nonUpsertVars>>

UpsertIdle ==
    /\ target = <<>>
    /\ existing_pages = <<>>
    /\ existing_map = <<>>
    /\ row_i = 1
    /\ initial_target = <<>>
    /\ start_target = <<>>
    /\ repeat = FALSE
    /\ aborted = FALSE
    /\ runs = 0

\* The collections a first run can meet: up to MaxInitRecords records, the
\* title empty, a label, a label in two segments, or a label followed by
\* another segment.
TitleChoices ==
    {<<>>, <<"June 2025">>, <<"June ", "2025">>, <<"June 2025", " (draft)">>}

InitialTargets ==
    {[i \in 1..Len(ts) |->
        [id |-> PageId(i),
         properties |-> [Name |-> ts[i], Date |-> "2000-01-01"]
                        @@ ("Average rnd" :> Hundredths(100))]] :
        ts \in SeqsUpTo(TitleChoices, MaxInitRecords)}

\* Python's None, where an identifier is expected
None ==
    "None"

\* a client whose source is configured and that runs alone
CallIdle ==
    /\ source_db_id = "src"
    /\ database_id = None
    /\ passed_id = None
    /\ prop_schema = <<>>
    /\ proc = <<>>

(***************************************************************************)
(* set_database_ids and the head of fetch_all_records                      *)
(***************************************************************************)
\* the values an identifier argument can take: None, the empty string, or
\* the identifier of a collection
IdChoices ==
    {None, "", "src", "other"}

\* "not database_id"
Falsy(id) ==
    id = None \/ id = ""

\* a fetcher that looks at its argument only
PassedOnly(arg, stored) ==
    arg

\* lines 86-87: if database_id is None: database_id = self.source_db_id
ResolvedId(arg, stored) ==
    IF arg = None THEN stored ELSE arg

\* lines 71-73
SetDatabaseIds ==
    /\ pc = "new"
    /\ \E s \in IdChoices \ {"other"}, p \in {"page", ""} :
          /\ source_db_id' = s
          /\ parent_page_id' = p
    /\ UNCHANGED <<pc, error, calls, fetchVars, aggVars, children, schema, found_id,
                   desired_updates, summary_db_id, create_count, returned, upsertVars,
                   database_id, passed_id, prop_schema, proc>>

\* a caller invokes fetch_all_records(database_id)
CallFetch ==
    /\ pc = "new"
    /\ \E a \in IdChoices :
          /\ passed_id' = a
          /\ database_id' = a
    /\ pc' = "call_fetch"
    /\ UNCHANGED <<error, calls, fetchVars, aggVars, dbVars, upsertVars,
                   source_db_id, prop_schema, proc>>

\* lines 86-90
FetchStart ==
    /\ pc = "call_fetch"
    /\ LET id == ResolvedId(database_id, source_db_id)
       IN  /\ database_id' = id
           /\ IF Falsy(id)
              THEN pc' = "raised" /\ error' = "ValueError"
              ELSE pc' = "fetch" /\ error' = "none"
    /\ UNCHANGED <<calls, fetchVars, aggVars, dbVars, upsertVars,
                   source_db_id, passed_id, prop_schema, proc>>

(***************************************************************************)
(* results_to_dataframe.  A value that may be None is a sequence: <<>> is   *)
(* None, <<v>> is the value v.  A raw record is a mapping property name ->  *)
(* property value, as the remote returns it: a date property is             *)
(* {"type": "date", "date": None} when empty and {"type": "date", "date":   *)
(* {"start": ...}} otherwise; a property can also be absent from a record.  *)
(***************************************************************************)
\* date.isoformat()
isoformat(d) ==
    ToString(d.year) \o "-" \o Pad2(d.month) \o "-" \o Pad2(d.day)

\* the dates the parser is tried on
ParserDates ==
    {[year |-> y, month |-> m, day |-> d] : y \in Years, m \in 1..12, d \in {1, 15}}

\* line 128: parser.parse(date_val); <<>> when the string is no date
parse(date_val) ==
    IF \E d \in ParserDates : isoformat(d) = date_val
    THEN <<CHOOSE d \in ParserDates : isoformat(d) = date_val>>
    ELSE <<>>

day_name ==
    <<"Sunday", "Monday", "Tuesday", "Wednesday", "Thursday", "Friday", "Saturday">>

\* line 132: strftime("%A"), the weekday of a Gregorian date
Weekday(d) ==
    LET t == <<0, 3, 2, 5, 0, 3, 5, 1, 4, 6, 2, 4>>
        y == IF d.month < 3 THEN d.year - 1 ELSE d.year
    IN  day_name[((y + (y \div 4) - (y \div 100) + (y \div 400) + t[d.month] + d.day) % 7) + 1]

\* lines 119-120
date_keys(sch) ==
    LET IsDate(e) == e[2] = "date"
        sel == SelectSeq(sch, IsDate)
    IN  [i \in 1..Len(sel) |-> sel[i][1]]

number_keys(sch) ==
    LET IsNumber(e) == e[2] = "number" \/ e[2] = "formula"
        sel == SelectSeq(sch, IsNumber)
    IN  [i \in 1..Len(sel) |-> sel[i][1]]

\* line 128 raises out of results_to_dataframe: nothing catches it
ParseFailure(row) ==
    [err |-> "ParserError", row |-> row]

\* lines 126-132 for one date key: the row with the key's fields set, or the
\* exception raised
DateField(props, key, row) ==
    IF key \notin DOMAIN props THEN [err |-> "none", row |-> row]
    ELSE IF props[key].date = <<>> THEN [err |-> "AttributeError", row |-> row]
    ELSE LET date_val == props[key].date[1].start
         IN  IF date_val = <<>> \/ date_val = <<"">> THEN [err |-> "none", row |-> row]
             ELSE IF parse(date_val[1]) = <<>> THEN ParseFailure(row)
             ELSE LET date_parsed == parse(date_val[1])[1]
                  IN  [err |-> "none",
                       row |-> (key :> date_parsed)
                               @@ ("Year" :> date_parsed.year)
                               @@ ("Month" :> month_name[date_parsed.month])
                               @@ ("Day" :> Weekday(date_parsed))
                               @@ row]

\* lines 125-132
RECURSIVE DateFields(_, _, _)
DateFields(props, keys, row) ==
    IF keys = <<>> THEN [err |-> "none", row |-> row]
    ELSE LET first == DateField(props, Head(keys), row)
         IN  IF first.err # "none" THEN first
             ELSE DateFields(props, Tail(keys), first.row)

\* lines 135-138: the value of a number or formula property, <<>> for None
NumberValue(props, key) ==
    IF key \notin DOMAIN props THEN <<>>
    ELSE IF props[key].type = "formula" THEN props[key].formula
    ELSE props[key].number

\* lines 133-140
RECURSIVE NumberFields(_, _, _)
NumberFields(props, keys, row) ==
    IF keys = <<>> THEN row
    ELSE LET val == NumberValue(props, Head(keys))
         IN  NumberFields(props, Tail(keys),
                          IF val # <<>> THEN (Head(keys) :> val[1]) @@ row ELSE row)

\* lines 123-140 for one page
RowOf(props, sch) ==
    LET dated == DateFields(props, date_keys(sch), <<>>)
    IN  IF dated.err # "none" THEN dated
        ELSE [err |-> "none", row |-> NumberFields(props, number_keys(sch), dated.row)]

\* lines 122-143: the rows of the pages in order, an empty row left out
\* (line 141); the first exception ends the call
RECURSIVE ExtractRows(_, _, _)
ExtractRows(pages, sch, rows) ==
    IF pages = <<>> THEN [err |-> "none", rows |-> rows]
    ELSE LET r == RowOf(Head(pages).properties, sch)
         IN  IF r.err # "none" THEN [err |-> r.err, rows |-> rows]
             ELSE ExtractRows(Tail(pages), sch,
                              IF DOMAIN r.row # {} THEN Append(rows, r.row) ELSE rows)

results_to_dataframe(pages, sch) ==
    ExtractRows(pages, sch, <<>>)

\* lines 105-143, with the schema read of line 117
Extract ==
    /\ pc = "extract"
    /\ calls' = Append(calls, [op |-> "get_schema",
                               id |-> IF Falsy(database_id) THEN source_db_id
                                      ELSE database_id,
                               props |-> <<>>])
    /\ LET out == results_to_dataframe(results, prop_schema)
       IN  /\ error' = out.err
           /\ pc' = IF out.err = "none" THEN "extracted" ELSE "raised"
           /\ df' = IF out.err = "none" THEN out.rows ELSE df
    /\ UNCHANGED <<fetchVars, aggregation_attribute, monthly_df, dbVars, upsertVars,
                   callVars, proc>>

\* The source collections an extraction can meet.  Two date properties, a
\* number and a formula; a record has each of them or not.
SourceDates ==
    {[year |-> y, month |-> Month_Num(m), day |-> 15] : y \in Years, m \in UsedMonths}

DateValues ==
    {[type |-> "date", date |-> <<>>],
     [type |-> "date", date |-> <<[start |-> <<"">>]>>],
     [type |-> "date", date |-> <<[start |-> <<"not a date">>]>>]}
    \cup {[type |-> "date", date |-> <<[start |-> <<isoformat(d)>>]>>] :
             d \in {e \in SourceDates : e.year = 2025}}

DueValues ==
    {[type |-> "date", date |-> <<[start |-> <<"2024-01-01">>]>>]}

NumberValues ==
    {[type |-> "number", number |-> <<>>], [type |-> "number", number |-> <<10>>]}

FormulaValues ==
    {[type |-> "formula", formula |-> <<20>>]}

\* a mapping with the entry name -> v for each v, and the empty mapping
Optional(name, values) ==
    {<<>>} \cup {(name :> v) : v \in values}

RawRecords ==
    {[properties |-> a @@ b @@ c @@ d] :
        a \in Optional("Date", DateValues), b \in Optional("Due", DueValues),
        c \in Optional("rnd", NumberValues), d \in Optional("score", FormulaValues)}

RawRecordLists ==
    SeqsUpTo(RawRecords, MaxRawRecords)

SchemaChoices ==
    {<<<<"Date", "date">>, <<"rnd", "number">>>>,
     <<<<"Name", "title">>, <<"Date", "date">>, <<"Due", "date">>, <<"rnd", "number">>>>,
     <<<<"Due", "date">>, <<"Date", "date">>, <<"score", "formula">>>>}

(***************************************************************************)
(* process_habit_tracking: set_database_ids, fetch_daily_data,             *)
(* create_monthly_aggregate, manage_monthly_summary_db, in that order; an   *)
(* exception in a step ends the run (nothing in the class catches one).    *)
(***************************************************************************)
\* lines 345-346, 358 and 155: the ids are stored, then the fetcher is called
\* without an identifier
ProcessHabitTracking ==
    /\ pc = "start"
    /\ \E s \in {"src", None}, p \in {"page", ""} :
          /\ source_db_id' = s
          /\ parent_page_id' = p
    /\ database_id' = None
    /\ passed_id' = None
    /\ pc' = "call_fetch"
    /\ UNCHANGED <<error, calls, fetchVars, aggVars, children, schema, found_id,
                   desired_updates, summary_db_id, create_count, returned, upsertVars,
                   prop_schema, proc>>

\* line 156: return self.results_to_dataframe(results, database_id)
CallExtract ==
    /\ pc = "fetched"
    /\ pc' = "extract"
    /\ database_id' = passed_id
    /\ UNCHANGED <<error, calls, fetchVars, aggVars, dbVars, upsertVars,
                   source_db_id, passed_id, prop_schema, proc>>

\* lines 347 and 371: monthly_df = self.aggregate_monthly_performance(daily_df)
CallAggregate ==
    /\ pc = "extracted"
    /\ pc' = "aggregate"
    /\ UNCHANGED <<error, calls, fetchVars, aggVars, dbVars, upsertVars, callVars, proc>>

\* lines 348, 383 and 237-241: get_or_create_monthly_summary_db()
CallLocate ==
    /\ pc = "aggregated"
    /\ found_id' = ""
    /\ desired_updates' = <<>>
    /\ IF parent_page_id = ""
       THEN pc' = "raised" /\ error' = "ValueError"
       ELSE pc' = "list" /\ error' = "none"
    /\ UNCHANGED <<calls, parent_page_id, children, schema, summary_db_id, create_count,
                   returned, fetchVars, aggVars, upsertVars, callVars, proc>>

\* lines 384 and 281: upsert_monthly_summary(summary_db_id, monthly_df)
CallUpsert ==
    /\ pc = "located"
    /\ runs' = runs + 1
    /\ start_target' = target
    /\ existing_pages' = <<>>
    /\ existing_map' = <<>>
    /\ row_i' = 1
    /\ response' = NoResponse
    /\ pc' = "query"
    /\ UNCHANGED <<error, calls, monthly_df, target, initial_target, repeat, aborted,
                   nonUpsertVars>>

\* The runs of the pipeline: a source of one or two pages of at most one
\* record each, a parent page with or without the summary collection, whose
\* schema is complete or lacks Date, and which holds three records or none.
PipelineRecords ==
    {r \in RawRecords : DOMAIN r.properties \subseteq {"Date", "rnd"}}

PipelineSources ==
    LET page == {<<>>} \cup {<<r>> : r \in PipelineRecords}
    IN  {<<a>> : a \in page} \cup {<<a, b>> : a \in page, b \in page}

PipelineSchema ==
    <<<<"Date", "date">>, <<"rnd", "number">>>>

SummaryChild ==
    [id |-> BlockId(1), type |-> "child_database", title |-> SummaryTitle]

SummaryRecords ==
    [i \in 1..3 |->
        [id |-> PageId(i),
         properties |-> [Name |-> <<<<"June 2025">>, <<"May 2024">>, <<"December 2025">>>>[i],
                         Date |-> "2000-01-01"]
                        @@ ("Average rnd" :> Hundredths(100))]]

(***************************************************************************)
(* Two runs of upsert_monthly_summary against one summary collection, each  *)
(* with its own local variables (proc[p]); a remote call is one step, and   *)
(* the steps of the two runs interleave freely.                            *)
(***************************************************************************)
Runs ==
    {1, 2}

\* a loop that builds the lookup anew from the store before each row
FreshLookup(map, records) ==
    BuildMap(records)

\* line 311: the loop consults the lookup built at lines 292-297
Snapshot(map, records) ==
    map

\* lines 282-283
RaceQueryFirst(p) ==
    /\ proc[p].pc = "query"
    /\ LET r == databases_query(Paginate(target), NoCursor)
       IN  proc' = [proc EXCEPT ![p].response = r,
                                ![p].existing_pages = @ \o r.results,
                                ![p].pc = "query_loop"]
    /\ UNCHANGED <<pc, error, calls, fetchVars, aggVars, dbVars, upsertVars, callVars>>

\* lines 285-289
RaceQueryNext(p) ==
    /\ proc[p].pc = "query_loop"
    /\ MorePages(proc[p].response)
    /\ LET r == databases_query(Paginate(target), proc[p].response.next_cursor)
       IN  proc' = [proc EXCEPT ![p].response = r,
                                ![p].existing_pages = @ \o r.results]
    /\ UNCHANGED <<pc, error, calls, fetchVars, aggVars, dbVars, upsertVars, callVars>>

\* lines 292-300
RaceBuildLookup(p) ==
    /\ proc[p].pc = "query_loop"
    /\ ~MorePages(proc[p].response)
    /\ proc' = [proc EXCEPT ![p].existing_map = BuildMap(proc[p].existing_pages),
                             ![p].pc = "rows"]
    /\ UNCHANGED <<pc, error, calls, fetchVars, aggVars, dbVars, upsertVars, callVars>>

\* lines 301-331 for one row
RaceUpsertRow(p) ==
    /\ proc[p].pc = "rows"
    /\ proc[p].row_i <= Len(proc[p].monthly_df)
    /\ LET row == proc[p].monthly_df[proc[p].row_i]
           lookup == Snapshot(proc[p].existing_map, target)
       IN  IF avg_col(aggregation_attribute) \notin DOMAIN row
           THEN /\ proc' = [proc EXCEPT ![p].pc = "raised"]
                /\ UNCHANGED <<calls, target>>
           ELSE IF month_label(row) \in DOMAIN lookup
           THEN LET id == lookup[month_label(row)]
                    props == UpdateProperties(row, aggregation_attribute)
                IN  /\ calls' = Append(calls, [op |-> "update_record", id |-> id,
                                               props |-> props, ok |-> TRUE, run |-> p])
                    /\ target' = ApplyUpdate(target, id, props)
                    /\ proc' = [proc EXCEPT ![p].row_i = @ + 1]
           ELSE LET props == CreateProperties(row, aggregation_attribute)
                IN  /\ calls' = Append(calls, [op |-> "create_record",
                                               id |-> PageId(Len(target) + 1),
                                               props |-> props, ok |-> TRUE, run |-> p])
                    /\ target' = ApplyCreate(target, props)
                    /\ proc' = [proc EXCEPT ![p].row_i = @ + 1]
    /\ UNCHANGED <<pc, error, fetchVars, aggVars, dbVars, existing_pages, existing_map,
                   row_i, initial_target, start_target, repeat, aborted, runs, callVars>>

\* line 333
RaceReturn(p) ==
    /\ proc[p].pc = "rows"
    /\ proc[p].row_i > Len(proc[p].monthly_df)
    /\ proc' = [proc EXCEPT ![p].pc = "done"]
    /\ UNCHANGED <<pc, error, calls, fetchVars, aggVars, dbVars, upsertVars, callVars>>

\* the frames of the racing runs: int64 years, a row for June 2025 in each
RaceFrames ==
    {f \in UpsertFrames :
        /\ \E k \in 1..Len(f) : f[k].Month = "June"
        /\ \A k \in 1..Len(f) : ~f[k].Year.is_float}

RaceTargets ==
    {t \in InitialTargets : Len(t) <= 1}

LocalsOf(frame) ==
    [pc |-> "query", monthly_df |-> frame, response |-> NoResponse,
     existing_pages |-> <<>>, existing_map |-> <<>>, row_i |-> 1]

(***************************************************************************)
(* Specifications                                                          *)
(***************************************************************************)
InitFetch ==
    /\ pc = "fetch"
    /\ source_pages \in SourcePageLists
    /\ FetchIdle
    /\ error = "none"
    /\ calls = <<>>
    /\ AggIdle
    /\ DbIdle
    /\ UpsertIdle
    /\ CallIdle

NextFetch ==
    \/ FetchFirst
    \/ FetchNext
    \/ FetchReturn

SpecFetch == InitFetch /\ [][NextFetch]_vars

InitAgg ==
    /\ pc = "aggregate"
    /\ aggregation_attribute \in {"rnd", ""}
    /\ df \in DailyFrames
    /\ monthly_df = <<>>
    /\ error = "none"
    /\ calls = <<>>
    /\ source_pages = <<<<>>>>
    /\ FetchIdle
    /\ DbIdle
    /\ UpsertIdle
    /\ CallIdle

NextAgg ==
    Aggregate

SpecAgg == InitAgg /\ [][NextAgg]_vars

\* a schema is kept for each collection a run can read: the first child titled
\* as the summary, and the collection a run creates
InitSummaryDb ==
    /\ pc = "idle"
    /\ error = "none"
    /\ calls = <<>>
    /\ aggregation_attribute \in {"rnd", ""}
    /\ parent_page_id \in {"page", ""}
    /\ children \in ChildrenLists
    /\ schema \in [{children[i].id : i \in {j \in Matching(children) : j = FirstMatch(children)}}
                      -> SchemasOf("rnd")]
    /\ found_id = ""
    /\ desired_updates = <<>>
    /\ summary_db_id = ""
    /\ create_count = 0
    /\ returned = {}
    /\ df = <<>>
    /\ monthly_df = <<>>
    /\ source_pages = <<<<>>>>
    /\ FetchIdle
    /\ UpsertIdle
    /\ CallIdle

NextSummaryDb ==
    \/ StartLocate
    \/ ListChildren
    \/ EnsureRetrieve
    \/ EnsureUpdate
    \/ CreateDb
    \/ HandEditSchema

SpecSummaryDb == InitSummaryDb /\ [][NextSummaryDb]_vars

InitUpsert ==
    /\ pc = "idle"
    /\ error = "none"
    /\ calls = <<>>
    /\ target \in InitialTargets
    /\ initial_target = target
    /\ start_target = target
    /\ existing_pages = <<>>
    /\ existing_map = <<>>
    /\ row_i = 1
    /\ repeat = FALSE
    /\ aborted = FALSE
    /\ runs = 0
    /\ source_pages = <<<<>>>>
    /\ FetchIdle
    /\ AggIdle
    /\ DbIdle
    /\ CallIdle

NextUpsert ==
    \/ StartUpsert
    \/ UpsertQueryFirst
    \/ UpsertQueryNext
    \/ BuildLookup
    \/ UpsertRow
    \/ UpsertReturn
    \/ RemoteFailure

SpecUpsert == InitUpsert /\ [][NextUpsert]_vars

\* a client just constructed (lines 46-48), before any set_database_ids
InitFetchCall ==
    /\ pc = "new"
    /\ source_pages \in SourcePageLists
    /\ FetchIdle
    /\ error = "none"
    /\ calls = <<>>
    /\ AggIdle
    /\ parent_page_id = ""
    /\ children = <<>>
    /\ schema = <<>>
    /\ found_id = ""
    /\ desired_updates = <<>>
    /\ summary_db_id = ""
    /\ create_count = 0
    /\ returned = {}
    /\ UpsertIdle
    /\ source_db_id = None
    /\ database_id = None
    /\ passed_id = None
    /\ prop_schema = <<>>
    /\ proc = <<>>

NextFetchCall ==
    \/ SetDatabaseIds
    \/ CallFetch
    \/ FetchStart
    \/ FetchFirst
    \/ FetchNext
    \/ FetchReturn

SpecFetchCall == InitFetchCall /\ [][NextFetchCall]_vars

InitExtract ==
    /\ pc = "extract"
    /\ results \in RawRecordLists
    /\ prop_schema \in SchemaChoices
    /\ source_pages = <<results>>
    /\ response = NoResponse
    /\ queries = <<>>
    /\ responses = <<>>
    /\ error = "none"
    /\ calls = <<>>
    /\ AggIdle
    /\ DbIdle
    /\ UpsertIdle
    /\ source_db_id = "src"
    /\ database_id = None
    /\ passed_id = None
    /\ proc = <<>>

NextExtract ==
    Extract

SpecExtract == InitExtract /\ [][NextExtract]_vars

InitPipeline ==
    /\ pc = "start"
    /\ error = "none"
    /\ calls = <<>>
    /\ source_pages \in PipelineSources
    /\ prop_schema = PipelineSchema
    /\ FetchIdle
    /\ aggregation_attribute \in {"rnd", ""}
    /\ df = <<>>
    /\ monthly_df = <<>>
    /\ parent_page_id = ""
    /\ \/ /\ children = <<>>
          /\ schema = <<>>
          /\ target = <<>>
       \/ /\ children = <<SummaryChild>>
          /\ schema \in {(SummaryChild.id :> NewSchema("rnd")),
                         (SummaryChild.id :> ("Name" :> "title"))}
          /\ target \in {<<>>, SummaryRecords}
    /\ found_id = ""
    /\ desired_updates = <<>>
    /\ summary_db_id = ""
    /\ create_count = 0
    /\ returned = {}
    /\ initial_target = target
    /\ start_target = target
    /\ existing_pages = <<>>
    /\ existing_map = <<>>
    /\ row_i = 1
    /\ repeat = FALSE
    /\ aborted = FALSE
    /\ runs = 0
    /\ source_db_id = None
    /\ database_id = None
    /\ passed_id = None
    /\ proc = <<>>

NextPipeline ==
    \/ ProcessHabitTracking
    \/ FetchStart
    \/ FetchFirst
    \/ FetchNext
    \/ FetchReturn
    \/ CallExtract
    \/ Extract
    \/ CallAggregate
    \/ Aggregate
    \/ CallLocate
    \/ ListChildren
    \/ EnsureRetrieve
    \/ EnsureUpdate
    \/ CreateDb
    \/ CallUpsert
    \/ UpsertQueryFirst
    \/ UpsertQueryNext
    \/ BuildLookup
    \/ UpsertRow
    \/ UpsertReturn

SpecPipeline == InitPipeline /\ [][NextPipeline]_vars

InitRace ==
    /\ pc = "race"
    /\ error = "none"
    /\ calls = <<>>
    /\ target \in RaceTargets
    /\ initial_target = target
    /\ start_target = target
    /\ existing_pages = <<>>
    /\ existing_map = <<>>
    /\ row_i = 1
    /\ repeat = FALSE
    /\ aborted = FALSE
    /\ runs = 0
    /\ proc \in {[p \in Runs |-> LocalsOf(fs[p])] : fs \in [Runs -> RaceFrames]}
    /\ source_pages = <<<<>>>>
    /\ FetchIdle
    /\ AggIdle
    /\ DbIdle
    /\ source_db_id = "src"
    /\ database_id = None
    /\ passed_id = None
    /\ prop_schema = <<>>

NextRace ==
    \E p \in Runs :
       \/ RaceQueryFirst(p)
       \/ RaceQueryNext(p)
       \/ RaceBuildLookup(p)
       \/ RaceUpsertRow(p)
       \/ RaceReturn(p)

SpecRace == InitRace /\ [][NextRace]_vars

(***************************************************************************)
(* Properties of fetch_all_records (SpecFetch)                             *)
(***************************************************************************)
\* C4: over a source of N >= 1 pages the fetcher issues exactly N queries, the
\* first without a cursor and each later one with the next_cursor of the
\* response just before it, goes on exactly while has_more is true, and its
\* results are the pages' records concatenated in page order.
PaginationComplete ==
    /\ Len(queries) <= Len(source_pages)
    /\ Len(responses) = Len(queries)
    /\ results = Flatten(SubSeq(source_pages, 1, Len(queries)))
    /\ \A i \in 1..Len(queries) :
          queries[i] = IF i = 1 THEN NoCursor ELSE responses[i - 1].next_cursor
    /\ \A i \in 1..(Len(responses) - 1) : responses[i].has_more
    /\ pc = "fetched" =>
          /\ Len(queries) = Len(source_pages)
          /\ ~responses[Len(responses)].has_more
          /\ results = Flatten(source_pages)
          /\ \A k \in 1..Len(results) : results[k] = k

\* three pages, the middle one empty, all fetched
PaginationWitness ==
    /\ pc = "fetched"
    /\ Len(source_pages) = 3
    /\ source_pages[2] = <<>>
    /\ Len(results) >= 3

(***************************************************************************)
(* Properties of aggregate_monthly_performance (SpecAgg)                   *)
(***************************************************************************)
RECURSIVE SumOver(_, _)
SumOver(S, attr) ==
    IF S = {} THEN 0
    ELSE LET i == CHOOSE j \in S : TRUE
         IN  df[i][attr] + SumOver(S \ {i}, attr)

\* the daily rows of one month, and those of them that carry the attribute
RowsOf(y, m) ==
    {i \in 1..Len(df) : HasKey(df[i]) /\ df[i].Year = y /\ df[i].Month = m}

Carrying(y, m) ==
    {i \in RowsOf(y, m) : aggregation_attribute \in DOMAIN df[i]}

InputKeys ==
    {<<df[i].Year, df[i].Month>> : i \in {j \in 1..Len(df) : HasKey(df[j])}}

OneRowPerKey ==
    /\ {<<monthly_df[i].Year.v, monthly_df[i].Month>> : i \in 1..Len(monthly_df)} = InputKeys
    /\ Len(monthly_df) = Cardinality(InputKeys)

AbsDiff(a, b) ==
    IF a >= b THEN a - b ELSE b - a

\* C5 as stated: one output row per distinct (Year, Month) of the input, its
\* value exactly the sum of the attribute over the rows that carry it divided
\* by their number.
MeanIsExactQuotient ==
    pc = "aggregated" =>
        /\ OneRowPerKey
        /\ \A i \in 1..Len(monthly_df) :
              LET r == monthly_df[i]
                  c == Carrying(r.Year.v, r.Month)
                  a == r[avg_col(aggregation_attribute)]
              IN  c # {} =>
                     /\ ~a.nan
                     /\ a.num * Cardinality(c) = a.den * SumOver(c, aggregation_attribute)

\* C5 amended: the call returns exactly when an attribute is designated, some
\* row has Year and Month and some row carries the attribute; it then outputs
\* one row per distinct (Year, Month), whose value is the mean over the rows
\* carrying the attribute rounded to two decimals (within half a hundredth of
\* the quotient), rows lacking the attribute counted in neither sum nor
\* number; a month none of whose rows carries it has the value NaN.
MeanRoundedOverCarryingRows ==
    /\ pc = "aggregated" =>
          /\ OneRowPerKey
          /\ \A i \in 1..Len(monthly_df) :
                LET r == monthly_df[i]
                    c == Carrying(r.Year.v, r.Month)
                    a == r[avg_col(aggregation_attribute)]
                IN  IF c = {} THEN a.nan
                    ELSE /\ ~a.nan
                         /\ a.den = 100
                         /\ 2 * AbsDiff(a.num * Cardinality(c),
                                        100 * SumOver(c, aggregation_attribute))
                               <= Cardinality(c)
    /\ pc = "raised" =>
          \/ aggregation_attribute = ""
          \/ InputKeys = {}
          \/ \A i \in 1..Len(df) : aggregation_attribute \notin DOMAIN df[i]

\* a month of three rows, one of them lacking the attribute, the mean of the
\* other two not a whole number
MeanWitness ==
    /\ pc = "aggregated"
    /\ \E i \in 1..Len(monthly_df) :
          /\ Cardinality(RowsOf(monthly_df[i].Year.v, monthly_df[i].Month)) = 3
          /\ Cardinality(Carrying(monthly_df[i].Year.v, monthly_df[i].Month)) = 2
          /\ monthly_df[i].avg_rnd = Hundredths(1500)

\* the ordinal of a month name, January = 1 ... December = 12
Ordinal ==
    [January |-> 1, February |-> 2, March |-> 3, April |-> 4, May |-> 5,
     June |-> 6, July |-> 7, August |-> 8, September |-> 9, October |-> 10,
     November |-> 11, December |-> 12]

\* C6: the rows returned are in descending Year and, within a year, descending
\* month ordinal; the helper column Month_Num is not in the output.
SortedMostRecentFirst ==
    pc = "aggregated" =>
        /\ \A i \in 1..(Len(monthly_df) - 1) :
              LET a == monthly_df[i]
                  b == monthly_df[i + 1]
              IN  \/ a.Year.v > b.Year.v
                  \/ a.Year.v = b.Year.v /\ Ordinal[a.Month] > Ordinal[b.Month]
        /\ \A i \in 1..Len(monthly_df) :
              DOMAIN monthly_df[i] = {"Year", "Month", avg_col(aggregation_attribute)}

\* (2025, December), (2025, June), (2024, ...) in that order
SortedWitness ==
    /\ pc = "aggregated"
    /\ Len(monthly_df) = 3
    /\ monthly_df[1].Year.v = 2025 /\ monthly_df[1].Month = "December"
    /\ monthly_df[2].Year.v = 2025 /\ monthly_df[2].Month = "June"
    /\ monthly_df[3].Year.v = 2024

(***************************************************************************)
(* Properties of get_or_create_monthly_summary_db (SpecSummaryDb)          *)
(***************************************************************************)
CreatedThisRun ==
    \E k \in 1..Len(calls) : calls[k].op = "create_collection"

\* the blocks the parent had before any run created a collection
OriginalChildren ==
    SubSeq(children, 1, Len(children) - create_count)

EqualsIgnoringCase(t) ==
    Lower(t) = Lower(SummaryTitle)

EqualsStrippedIgnoringCase(t) ==
    Lower(Strip(t)) = Lower(SummaryTitle)

ThreeProperties ==
    ("Name" :> "title") @@ ("Date" :> "date") @@ ("Average rnd" :> "number")

\* C8 as stated: a run returns, without creating, the id of a child collection
\* whose title equals "Monthly Aggregate Summary" ignoring case; it creates
\* (with the three properties) only when there is no such child; so from a
\* parent without such a child, all runs together create at most once and
\* every run returns that one new collection.
LocateOrCreateIgnoringCase ==
    /\ (pc = "located" /\ ~CreatedThisRun) =>
          \E i \in 1..Len(children) :
             /\ children[i].id = summary_db_id
             /\ children[i].type = "child_database"
             /\ EqualsIgnoringCase(children[i].title)
    /\ (pc = "located" /\ CreatedThisRun) =>
          /\ calls[Len(calls)].props = ThreeProperties
          /\ \A i \in 1..(Len(children) - 1) :
                ~(children[i].type = "child_database"
                  /\ EqualsIgnoringCase(children[i].title))
    /\ (\A i \in 1..Len(OriginalChildren) :
           ~(OriginalChildren[i].type = "child_database"
             /\ EqualsIgnoringCase(OriginalChildren[i].title))) =>
          /\ create_count <= 1
          /\ returned \subseteq {NewDbId(1)}

\* C8 amended: the same with the title compared after stripping surrounding
\* whitespace and ignoring case, the first such child in page order being the
\* one returned.
LocateOrCreateOnce ==
    LET IsSummary(b) == b.type = "child_database" /\ EqualsStrippedIgnoringCase(b.title)
    IN  /\ (pc = "located" /\ ~CreatedThisRun) =>
              \E i \in 1..Len(children) :
                 /\ children[i].id = summary_db_id
                 /\ IsSummary(children[i])
                 /\ \A j \in 1..(i - 1) : ~IsSummary(children[j])
        /\ (pc = "located" /\ CreatedThisRun) =>
              /\ calls[Len(calls)].props = ThreeProperties
              /\ children[Len(children)].id = summary_db_id
              /\ \A i \in 1..(Len(children) - 1) : ~IsSummary(children[i])
        /\ (\A i \in 1..Len(OriginalChildren) : ~IsSummary(OriginalChildren[i])) =>
              /\ create_count <= 1
              /\ returned \subseteq {NewDbId(1)}
        /\ (\E i \in 1..Len(OriginalChildren) : IsSummary(OriginalChildren[i])) =>
              create_count = 0

\* a later run finds the collection an earlier run created under a parent
\* that had another block
LocateWitness ==
    /\ pc = "located"
    /\ ~CreatedThisRun
    /\ create_count = 1
    /\ summary_db_id = NewDbId(1)
    /\ Len(children) >= 2

\* C9: a run that reuses a collection reads its schema again, then issues one
\* schema update holding exactly the required properties that are absent or
\* of another type (none when there is no such property), and the schema has
\* the three required properties when the run returns.
EnsureSchemaExact ==
    (pc = "located" /\ ~CreatedThisRun) =>
        /\ Len(calls) >= 2
        /\ calls[1].op = "list_children"
        /\ calls[2].op = "get_schema"
        /\ calls[2].id = summary_db_id
        /\ LET before == calls[2].props
               wrong == {p \in DOMAIN ThreeProperties :
                            IF p \in DOMAIN before
                            THEN before[p] # ThreeProperties[p] ELSE TRUE}
           IN  /\ wrong = {} => Len(calls) = 2
               /\ wrong # {} =>
                     /\ Len(calls) = 3
                     /\ calls[3].op = "update_schema"
                     /\ calls[3].id = summary_db_id
                     /\ DOMAIN calls[3].props = wrong
                     /\ \A p \in wrong : calls[3].props[p] = ThreeProperties[p]
        /\ \A p \in DOMAIN ThreeProperties :
              /\ p \in DOMAIN schema[summary_db_id]
              /\ schema[summary_db_id][p] = ThreeProperties[p]

\* a reused collection whose Name was missing and whose Date had another type
EnsureWitness ==
    /\ pc = "located"
    /\ Len(calls) = 3
    /\ calls[3].op = "update_schema"
    /\ DOMAIN calls[3].props = {"Name", "Date"}
    /\ "Name" \notin DOMAIN calls[2].props
    /\ "Date" \in DOMAIN calls[2].props

(***************************************************************************)
(* Properties of upsert_monthly_summary (SpecUpsert)                       *)
(***************************************************************************)
RECURSIVE ConcatAll(_)
ConcatAll(segments) ==
    IF segments = <<>> THEN "" ELSE Head(segments) \o ConcatAll(Tail(segments))

\* the title of a record as a reader sees it: its segments joined
TitleText(record) ==
    ConcatAll(record.properties["Name"])

TwoDigits ==
    <<"01", "02", "03", "04", "05", "06", "07", "08", "09", "10", "11", "12">>

\* "<Month> <Year>" and "<Year>-<MM>-01" of an aggregate row
LabelOf(row) ==
    row.Month \o " " \o ToString(row.Year.v)

FirstOfMonth(row) ==
    ToString(row.Year.v) \o "-" \o TwoDigits[Ordinal[row.Month]] \o "-01"

IsWrite(call) ==
    call.op \in {"update_record", "create_record"}

\* the writes the current run has performed, one per row done
Writes ==
    SelectSeq(calls, IsWrite)

IsCreate(call) ==
    call.op = "create_record"

AllTitled(records) ==
    \A i \in 1..Len(records) : records[i].properties["Name"] # <<>>

\* C1: a run that follows a completed run with the same aggregate rows, over a
\* collection whose records all had a title, creates nothing, updates once
\* per row and leaves every record as the first run left it.
SecondRunOnlyUpdates ==
    (pc = "done" /\ repeat /\ AllTitled(initial_target)) =>
        /\ SelectSeq(calls, IsCreate) = <<>>
        /\ Len(Writes) = Len(monthly_df)
        /\ target = start_target

\* two rows run twice over a collection of titled records, the first run
\* having created a record
SecondRunWitness ==
    /\ pc = "done"
    /\ repeat
    /\ initial_target # <<>>
    /\ AllTitled(initial_target)
    /\ Len(monthly_df) = 2
    /\ Len(target) > Len(initial_target)

\* C2: after complete runs over a collection that began empty or with
\* pairwise distinct non-empty titles, no two records share a title, and
\* every row of the last run has its record, with the row's average and the
\* first day of its month.
OneRecordPerLabel ==
    (/\ pc = "done"
     /\ ~aborted
     /\ AllTitled(initial_target)
     /\ \A i, j \in 1..Len(initial_target) :
           i # j => TitleText(initial_target[i]) # TitleText(initial_target[j])) =>
        /\ \A i, j \in 1..Len(target) :
              i # j => TitleText(target[i]) # TitleText(target[j])
        /\ \A k \in 1..Len(monthly_df) :
              \E i \in 1..Len(target) :
                 /\ TitleText(target[i]) = LabelOf(monthly_df[k])
                 /\ target[i].properties["Average rnd"] = monthly_df[k].avg_rnd
                 /\ target[i].properties["Date"] = FirstOfMonth(monthly_df[k])

\* C3: every row whose label is not in the lookup is written by exactly one
\* create_record with the label as title, the row's average and the date
\* "<Year>-<MM>-01"; the row (2025, June, 42.0) over an empty collection
\* leaves exactly the record ("June 2025", 42.0, "2025-06-01").
CreateOnMiss ==
    /\ \A k \in 1..Len(Writes) :
          LET row == monthly_df[k]
          IN  LabelOf(row) \notin DOMAIN existing_map =>
                 /\ Writes[k].op = "create_record"
                 /\ Writes[k].props =
                       ("Name" :> <<LabelOf(row)>>)
                       @@ ("Average rnd" :> row.avg_rnd)
                       @@ ("Date" :> FirstOfMonth(row))
    /\ (/\ pc = "done"
        /\ start_target = <<>>
        /\ Len(monthly_df) = 1
        /\ monthly_df[1].Month = "June"
        /\ monthly_df[1].Year.v = 2025
        /\ monthly_df[1].avg_rnd = Hundredths(4200)) =>
          /\ Len(target) = 1
          /\ target[1].properties =
                ("Name" :> <<"June 2025">>)
                @@ ("Average rnd" :> Hundredths(4200))
                @@ ("Date" :> "2025-06-01")
          /\ Len(Writes) = 1

\* C7: every row whose label is in the lookup is written by exactly one
\* update_record, addressed to the id the lookup maps the label to and
\* carrying exactly the average and the date; no record's title changes and
\* no record is created for such a row.
UpdateOnHit ==
    /\ Len(Writes) = row_i - 1
    /\ \A k \in 1..Len(Writes) :
          LET row == monthly_df[k]
          IN  LabelOf(row) \in DOMAIN existing_map =>
                 /\ Writes[k].op = "update_record"
                 /\ Writes[k].id = existing_map[LabelOf(row)]
                 /\ DOMAIN Writes[k].props = {"Average rnd", "Date"}
                 /\ Writes[k].props["Average rnd"] = row.avg_rnd
    /\ Len(target) = Len(start_target) + Len(SelectSeq(calls, IsCreate))
    /\ \A i \in 1..Len(start_target) :
          /\ target[i].id = start_target[i].id
          /\ target[i].properties["Name"] = start_target[i].properties["Name"]

\* a record titled in two segments, the first of them the label, is updated
UpdateWitness ==
    /\ pc = "done"
    /\ \E k \in 1..Len(Writes) : Writes[k].op = "update_record"
    /\ \E i \in 1..Len(target) :
          /\ Len(target[i].properties["Name"]) = 2
          /\ target[i].properties["Average rnd"] = Hundredths(4200)

RECURSIVE Replay(_, _)
Replay(records, cs) ==
    IF cs = <<>> THEN records
    ELSE LET c == Head(cs)
         IN  Replay(IF ~c.ok THEN records
                    ELSE IF c.op = "update_record" THEN ApplyUpdate(records, c.id, c.props)
                    ELSE IF c.op = "create_record" THEN ApplyCreate(records, c.props)
                    ELSE records,
                    Tail(cs))

\* C10: a failed remote call is the last call of its run (it is not made
\* again and no call follows it), the run has then ended with the error, and
\* the collection holds exactly what the calls before it wrote.
NoRetryNoRollback ==
    /\ \A k \in 1..(Len(calls) - 1) : calls[k].ok
    /\ (Len(calls) > 0 /\ ~calls[Len(calls)].ok) <=> (pc = "raised" /\ error = "RemoteError")
    /\ target = Replay(start_target, calls)

\* the second write of a run fails, the first one stays
FailureWitness ==
    /\ pc = "raised"
    /\ error = "RemoteError"
    /\ Len(Writes) = 1
    /\ calls[Len(calls)].op = "write"
    /\ target # start_target

\* the lookup key of a record: the text of the first segment of its title
FirstSegment(record) ==
    record.properties["Name"][1]

\* C17: in a run every query of the collection comes before the first write;
\* the lookup stays the one built from the records the run fetched, whatever
\* the run creates; the rows are written one write each, in the order of the
\* aggregate (most recent month first), so a run of n rows ends after exactly
\* n writes.
ReadThenWrite ==
    /\ \A i, j \in 1..Len(calls) :
          (i < j /\ IsWrite(calls[i])) => calls[j].op # "query"
    /\ pc \in {"rows", "done"} =>
          /\ DOMAIN existing_map =
                {FirstSegment(start_target[i]) :
                    i \in {j \in 1..Len(start_target) :
                              start_target[j].properties["Name"] # <<>>}}
          /\ \A l \in DOMAIN existing_map :
                \E i \in 1..Len(start_target) :
                   /\ start_target[i].id = existing_map[l]
                   /\ start_target[i].properties["Name"] # <<>>
                   /\ FirstSegment(start_target[i]) = l
    /\ Len(Writes) = row_i - 1
    /\ pc = "done" => Len(Writes) = Len(monthly_df)
    /\ \A k \in 1..Len(Writes) :
          /\ Writes[k].props["Average rnd"] = monthly_df[k].avg_rnd
          /\ IF LabelOf(monthly_df[k]) \in DOMAIN existing_map
             THEN Writes[k].op = "update_record"
                  /\ Writes[k].id = existing_map[LabelOf(monthly_df[k])]
             ELSE Writes[k].op = "create_record"
                  /\ Writes[k].props["Name"] = <<LabelOf(monthly_df[k])>>
    /\ \A k \in 1..(Len(monthly_df) - 1) :
          \/ monthly_df[k].Year.v > monthly_df[k + 1].Year.v
          \/ /\ monthly_df[k].Year.v = monthly_df[k + 1].Year.v
             /\ Ordinal[monthly_df[k].Month] > Ordinal[monthly_df[k + 1].Month]

\* a run of two rows over a collection fetched in two queries: December is
\* created, then June is updated
ReadThenWriteWitness ==
    /\ pc = "done"
    /\ Len(Writes) = 2
    /\ Writes[1].op = "create_record"
    /\ Writes[2].op = "update_record"
    /\ Len(SelectSeq(calls, LAMBDA c : c.op = "query")) >= 2

\* the labels of the rows of the current run
RunLabels ==
    {LabelOf(monthly_df[k]) : k \in 1..Len(monthly_df)}

\* C16: a run deletes no record; it updates no record whose title is empty
\* or is not the label of one of its rows, and such a record keeps its
\* title, value and date; a row whose month has only an empty-title record
\* is created anew.
UntouchedRecords ==
    /\ Len(target) >= Len(start_target)
    /\ \A i \in 1..Len(start_target) : target[i].id = start_target[i].id
    /\ \A i \in 1..Len(start_target) :
          TitleText(start_target[i]) \notin RunLabels =>
             /\ target[i] = start_target[i]
             /\ \A k \in 1..Len(Writes) :
                   Writes[k].op = "update_record" => Writes[k].id # start_target[i].id
    /\ \A k \in 1..Len(Writes) :
          (\A i \in 1..Len(start_target) :
              TitleText(start_target[i]) # LabelOf(monthly_df[k])) =>
             Writes[k].op = "create_record"

(***************************************************************************)
(* Properties of the head of fetch_all_records (SpecFetchCall)             *)
(***************************************************************************)
\* the call is past lines 86-90
PastFetchStart ==
    pc \in {"raised", "fetch", "fetch_loop", "fetched"}

\* no identifier: None or the empty string
NoIdentifier(id) ==
    id = None \/ id = ""

\* C13 as stated: the fetcher raises the configuration error, having issued
\* no query, exactly when the call gives no identifier and none is stored;
\* an identifier given in the call is the one queried, and the stored one is
\* queried when the call gives none.
FetchFailsOnlyWithoutAnyId ==
    PastFetchStart =>
        /\ pc = "raised" <=> (NoIdentifier(passed_id) /\ NoIdentifier(source_db_id))
        /\ pc = "raised" => (queries = <<>> /\ error = "ValueError")
        /\ pc # "raised" =>
              database_id = IF NoIdentifier(passed_id) THEN source_db_id ELSE passed_id

\* C13 amended: the stored identifier stands in only for an argument that is
\* None; the fetcher raises, having issued no query, exactly when the
\* argument is the empty string, or is None with nothing (None or the empty
\* string) stored; otherwise it queries the argument if that is not None and
\* the stored identifier if it is.
FetchFailsOnFalsyResolvedId ==
    PastFetchStart =>
        /\ pc = "raised" <=>
              \/ passed_id = ""
              \/ passed_id = None /\ NoIdentifier(source_db_id)
        /\ pc = "raised" => (queries = <<>> /\ error = "ValueError")
        /\ pc # "raised" =>
              /\ database_id = IF passed_id = None THEN source_db_id ELSE passed_id
              /\ pc # "fetch" => (queries # <<>> /\ queries[1] = NoCursor)

\* nothing stored, nothing passed: the call has raised without a query
FetchConfigErrorWitness ==
    /\ pc = "raised"
    /\ passed_id = None
    /\ source_db_id = None
    /\ queries = <<>>

(***************************************************************************)
(* Properties of results_to_dataframe (SpecExtract)                        *)
(***************************************************************************)
\* the start of a date property of a record, <<>> when the record has no
\* such property or the property is empty
StartOf(record, key) ==
    IF key \notin DOMAIN record.properties THEN <<>>
    ELSE IF record.properties[key].date = <<>> THEN <<>>
    ELSE IF record.properties[key].date[1].start = <<"">> THEN <<>>
    ELSE record.properties[key].date[1].start

\* the temporal fields of a record that are not null, in schema order, and
\* its numeric fields that are not null
TemporalOf(record) ==
    LET NonNull(key) == StartOf(record, key) # <<>>
    IN  SelectSeq(date_keys(prop_schema), NonNull)

NumericOf(record) ==
    LET NonNull(key) == NumberValue(record.properties, key) # <<>>
    IN  SelectSeq(number_keys(prop_schema), NonNull)

Emits(record) ==
    TemporalOf(record) # <<>> \/ NumericOf(record) # <<>>

\* every start in the records is a date the parser accepts
AllDatesWellFormed ==
    \A i \in 1..Len(results) :
       \A k \in 1..Len(TemporalOf(results[i])) :
          parse(StartOf(results[i], TemporalOf(results[i])[k])[1]) # <<>>

\* C15: the rows are those of the records with some non-null temporal or
\* numeric field, one each and in record order, a record with none being
\* left out without an error; a row has Year, Month and Day exactly when the
\* record has a non-null temporal field, all three from the last such field
\* in schema order.
RowMaterialization ==
    (pc # "extract" /\ AllDatesWellFormed) =>
        /\ pc = "extracted"
        /\ error = "none"
        /\ LET emitting == SelectSeq(results, Emits)
           IN  /\ Len(df) = Len(emitting)
               /\ \A k \in 1..Len(df) :
                     LET t == TemporalOf(emitting[k])
                         n == NumericOf(emitting[k])
                     IN  /\ \A c \in {"Year", "Month", "Day"} :
                               c \in DOMAIN df[k] <=> t # <<>>
                         /\ t # <<>> =>
                               \E d \in ParserDates :
                                  /\ <<isoformat(d)>> = StartOf(emitting[k], t[Len(t)])
                                  /\ df[k]["Year"] = d.year
                                  /\ df[k]["Month"] = month_name[d.month]
                                  /\ df[k]["Day"] = Weekday(d)
                         /\ \A i \in 1..Len(n) :
                               /\ n[i] \in DOMAIN df[k]
                               /\ <<df[k][n[i]]>> = NumberValue(emitting[k].properties, n[i])

(***************************************************************************)
(* Properties of process_habit_tracking (SpecPipeline)                     *)
(***************************************************************************)
\* C11: a date that does not parse costs only its record: the parse error
\* never ends a run.
ParseFailureDropsRow ==
    ~(pc = "raised" /\ error = "ParserError")

WriteOps ==
    {"create_collection", "update_schema", "create_record", "update_record"}

\* C12: with no aggregation attribute designated the aggregator raises the
\* configuration error on every frame it is given, so the run ends there at
\* the latest: it never gets past the aggregation, issues no call that
\* creates a collection, updates a schema, creates or updates a record, and
\* leaves the parent page, the schemas and the summary records as they were.
NoWriteWithoutAttribute ==
    aggregation_attribute = "" =>
        /\ pc \notin {"aggregated", "list", "ensure", "ensure_update", "create", "located",
                      "query", "query_loop", "rows", "done"}
        /\ (pc = "raised" /\ Len(calls) = 1 /\ error \notin {"AttributeError", "ParserError"})
              => error = "ValueError"
        /\ \A k \in 1..Len(calls) : calls[k].op \notin WriteOps
        /\ create_count = 0
        /\ target = initial_target
        /\ monthly_df = <<>>
        /\ \/ children = <<>> /\ schema = <<>>
           \/ /\ children = <<SummaryChild>>
              /\ schema \in {(SummaryChild.id :> NewSchema("rnd")),
                             (SummaryChild.id :> ("Name" :> "title"))}

\* two dated records fetched and extracted, a summary collection waiting whose
\* schema lacks Date: the run has ended at the aggregator
NoWriteWitness ==
    /\ aggregation_attribute = ""
    /\ pc = "raised"
    /\ error = "ValueError"
    /\ Len(df) = 2
    /\ Len(queries) = 2
    /\ children # <<>>
    /\ "Date" \notin DOMAIN schema[SummaryChild.id]
    /\ target # <<>>

(***************************************************************************)
(* Properties of concurrent reconcilers (SpecRace)                         *)
(***************************************************************************)
\* the records of a collection whose title reads as the label
Titled(records, label) ==
    {i \in 1..Len(records) : TitleText(records[i]) = label}

\* the runs whose lookup, once built, has no entry for the label
MissedBy(label) ==
    {p \in Runs : proc[p].pc \in {"rows", "done"} /\ label \notin DOMAIN proc[p].existing_map}

\* C14: nothing keeps a run from creating a label another run has created
\* meanwhile: when both runs have a row for June 2025 and have ended, every
\* run that fetched before the label was in the collection has created its
\* own record for it, so that two runs that both fetched first leave two
\* records with the label where there was none.
RacingRunsDuplicate ==
    (\A p \in Runs : proc[p].pc = "done") =>
        /\ Len(SelectSeq(calls, LAMBDA c : IsCreate(c) /\ c.props["Name"] = <<"June 2025">>))
              = Cardinality(MissedBy("June 2025"))
        /\ (Titled(initial_target, "June 2025") = {} /\ MissedBy("June 2025") = Runs) =>
              Cardinality(Titled(target, "June 2025")) = 2

\* both runs fetched the empty collection before either wrote: two records
\* for June 2025
RaceWitness ==
    /\ \A p \in Runs : proc[p].pc = "done"
    /\ initial_target = <<>>
    /\ \A p \in Runs : proc[p].existing_pages = <<>>
    /\ Cardinality(Titled(target, "June 2025")) = 2

====
